---- MODULE Spec2Model ----
(***************************************************************************)
(* Schema-versioned document repository: the version migrators of the      *)
(* document classes, the Repository and SingletonRepository over the       *)
(* user_data table, and the row-level security of that table.              *)
(***************************************************************************)
EXTENDS Integers, Sequences, FiniteSets, TLC

VARIABLES
  mpc,      \* migrator harness: "input" | "migrated" | "remigrated" | "off"
  mClass,   \* the document class whose migrate is applied
  mIn,      \* the raw payload handed to migrate
  mOut,     \* outcome of migrate(mIn)
  mOut2,    \* outcome of migrate(migrate(mIn))
  table,    \* the rows of user_data
  clock,    \* NOW() of the storage engine
  ret,      \* the last completed call of a repository and its outcome
  spc,      \* per request of a SingletonRepository: "idle" | "insert"
  sloc,     \* per request: the user of its get() between select and insert
  fresh,    \* the store began empty and no save or delete was called since
  job       \* the bulk migration job: its position, its selection, its exit

mvars == <<mpc, mClass, mIn, mOut, mOut2>>
storevars == <<table, clock, ret, spc, sloc, fresh>>
svars == <<spc, sloc, fresh>>
vars ==
  <<mpc, mClass, mIn, mOut, mOut2, table, clock, ret, spc, sloc, fresh, job>>

(***************************************************************************)
(* JavaScript values.  A payload is a function from field names to values. *)
(* The value of a version field is tagged with its JavaScript type, so     *)
(* that the strict comparisons of the migrators (=== 1, switch) tell the   *)
(* number 2 from the string "2", from 2.5 and from null.                   *)
(***************************************************************************)
Num(n) == <<"number", n>>
Frac(n) == <<"number+0.5", n>>
Str(n) == <<"string", n>>
Null == <<"null", 0>>

\* An object is the function from its defined properties to their values:
\* a property set to undefined and a property the object does not have are
\* the same object to JSON.stringify, to toEqual and to a property read.
\* Only an array element can hold undefined.
Undefined == "undefined"

\* bounds of the version values tried
MaxVersion == 4
FarVersion == 99

VersionValues ==
  {Num(n) : n \in (-1..MaxVersion) \cup {FarVersion}}
    \cup {Frac(1), Frac(2), Str(2), Str(3), Null}

HasField(d, f) == f \in DOMAIN d
\* [d.f] : the one-element array of a property read
ArrayOf(d, f) == IF f \in DOMAIN d THEN <<d[f]>> ELSE <<Undefined>>
\* the properties fs of an object literal { f: d.f, ... }
Copy(d, fs) == [f \in fs \cap DOMAIN d |-> d[f]]
\* { ...a, ...b }
Spread(a, b) ==
  [f \in DOMAIN a \cup DOMAIN b |-> IF f \in DOMAIN b THEN b[f] ELSE a[f]]
Without(d, f) == [g \in DOMAIN d \ {f} |-> d[g]]
\* s is {} (leave d alone) or {v} (set field f to v)
Opt(d, f, s) ==
  IF s = {} THEN d ELSE Spread(d, [g \in {f} |-> CHOOSE v \in s : TRUE])

\* outcome of a call: a returned value or a thrown Error with its message
Return(v) == [threw |-> FALSE, value |-> v]
Throw(prefix, v) == [threw |-> TRUE, message |-> <<prefix, v>>]
Pending == [pending |-> TRUE]
\* the bulk migration job is not running
JobOff == [pc |-> "off"]

(***************************************************************************)
(* The document classes of the project type.                               *)
(***************************************************************************)
PROJECT_VERSION == 3

CurrentFields ==
  {"version", "typeName", "title", "members", "description", "priority",
   "tags"}
FlagFields == {"publicRead", "publicUpdate"}

\* a plausible slip: the defaults of the fields added since v1 are wrong
ProjectDocument_fromV1_BadDefaults(v1) ==
  Spread([version |-> Num(3), typeName |-> "projects",
          members |-> ArrayOf(v1, "owner"), priority |-> 0],
         Copy(v1, {"title", "description", "owner"}))

\* case undefined, case 1 of ProjectDocument.migrate
ProjectDocument_fromV1(v1) ==
  Spread([version |-> Num(3), typeName |-> "projects",
          members |-> ArrayOf(v1, "owner"), priority |-> 5, tags |-> <<>>],
         Copy(v1, {"title", "description"}))

\* a plausible slip: the v2 branch forgets the field that v3 adds
ProjectDocument_fromV2_NoTags(v2) == Spread(v2, [version |-> Num(3)])

\* case 2 of ProjectDocument.migrate
ProjectDocument_fromV2(v2) == Spread(v2, [version |-> Num(3), tags |-> <<>>])

\* a plausible slip: no default branch, the payload is passed through
ProjectDocument_migrate_NoDefault(data) ==
  IF ~HasField(data, "version") \/ data.version = Num(1)
  THEN Return(ProjectDocument_fromV1(data))
  ELSE IF data.version = Num(2)
  THEN Return(ProjectDocument_fromV2(data))
  ELSE Return(data)

\* a plausible slip: the current version goes through the v2 transform
ProjectDocument_migrate_Renormalise(data) ==
  IF ~HasField(data, "version") \/ data.version = Num(1)
  THEN Return(ProjectDocument_fromV1(data))
  ELSE IF data.version \in {Num(2), Num(3)}
  THEN Return(ProjectDocument_fromV2(data))
  ELSE Throw("Unknown version: ", data.version)

\* class ProjectDocument: switch (typed.version)
ProjectDocument_migrate(data) ==
  IF ~HasField(data, "version") \/ data.version = Num(1)
  THEN Return(ProjectDocument_fromV1(data))
  ELSE IF data.version = Num(2)
  THEN Return(ProjectDocument_fromV2(data))
  ELSE IF data.version = Num(3)
  THEN Return(data)
  ELSE Throw("Unknown version: ", data.version)

Examples_PROJECT_VERSION == 2

\* case undefined, case 1 of Project.migrate
Project_fromV1(v1) ==
  Spread([version |-> Num(2), typeName |-> "projects",
          members |-> ArrayOf(v1, "owner"), priority |-> 5,
          publicUpdate |-> FALSE],
         Copy(v1, {"title", "description", "publicRead"}))

\* a plausible slip: a payload at version 2 goes through the v1 branch again
Project_migrate_Remigrates(data) ==
  IF ~HasField(data, "version") \/ data.version \in {Num(1), Num(2)}
  THEN Return(Project_fromV1(data))
  ELSE Throw("Unknown project version: ", data.version)

\* class Project of the usage examples (current version 2)
Project_migrate(data) ==
  IF ~HasField(data, "version") \/ data.version = Num(1)
  THEN Return(Project_fromV1(data))
  ELSE IF data.version = Num(2)
  THEN Return(data)
  ELSE Throw("Unknown project version: ", data.version)

SETTINGS_VERSION == 2

\* v1.theme === 'light' || v1.theme === 'dark' ? v1.theme : 'auto'
ThemeOf(v1) ==
  IF HasField(v1, "theme") /\ v1.theme \in {"light", "dark"}
  THEN v1.theme ELSE "auto"

\* v1.emailNotifications || false
EmailOf(v1) ==
  IF HasField(v1, "emailNotifications") THEN v1.emailNotifications ELSE FALSE

\* case undefined, case 1 of UserSettings.migrate
UserSettings_fromV1(v1) ==
  [version |-> Num(2), typeName |-> "user_settings", theme |-> ThemeOf(v1),
   notifications |-> [email |-> EmailOf(v1), push |-> FALSE, sms |-> FALSE],
   language |-> "en"]

\* class UserSettings of the usage examples (current version 2)
UserSettings_migrate(data) ==
  IF ~HasField(data, "version") \/ data.version = Num(1)
  THEN Return(UserSettings_fromV1(data))
  ELSE IF data.version = Num(2)
  THEN Return(data)
  ELSE Throw("Unknown settings version: ", data.version)

WIKI_VERSION == 1

\* class WikiPage of the usage examples (current version 1)
WikiPage_migrate(data) ==
  IF ~HasField(data, "version") \/ data.version = Num(1)
  THEN Return(data)
  ELSE Throw("Unknown wiki page version: ", data.version)

Classes == {"ProjectDocument", "Project", "UserSettings", "WikiPage"}

\* temp.migrate(data) of the class a repository was constructed with
MigrateOf(class, data) ==
  CASE class = "ProjectDocument" -> ProjectDocument_migrate(data)
    [] class = "Project" -> Project_migrate(data)
    [] class = "UserSettings" -> UserSettings_migrate(data)
    [] class = "WikiPage" -> WikiPage_migrate(data)

CurrentVersionOf(class) ==
  CASE class = "ProjectDocument" -> PROJECT_VERSION
    [] class = "Project" -> Examples_PROJECT_VERSION
    [] class = "UserSettings" -> SETTINGS_VERSION
    [] class = "WikiPage" -> WIKI_VERSION

(***************************************************************************)
(* The raw payloads tried: the three historical shapes of a project, with  *)
(* and without a version, a type name and the access flags, with a         *)
(* required field dropped or a foreign field added.                        *)
(***************************************************************************)
ShapeV1 ==
  {[title |-> "Test Project", owner |-> "user-123", description |-> "Test"],
   [title |-> "Old", owner |-> "user-1", description |-> ""]}
ShapeV2 ==
  {[title |-> "Test", members |-> <<"user-1">>, description |-> "Test",
    priority |-> 8]}
ShapeV3 ==
  {[title |-> "Test", members |-> <<"user-1">>, description |-> "Test",
    priority |-> 8, tags |-> <<"important">>]}
Shapes == ShapeV1 \cup ShapeV2 \cup ShapeV3

OptBool == {{}, {TRUE}, {FALSE}}
OptDrop(d) == {d} \cup {Without(d, "title")}
OptExtra(d) == {d, Spread(d, [legacy |-> "x"])}

ProjectPayloads ==
  UNION UNION {
    { OptExtra(dd) : dd \in OptDrop(
        Opt(Opt(Opt(Opt(base, "version", ver), "typeName", tn),
                "publicRead", pr), "publicUpdate", pu)) }
    : <<base, ver, tn, pr, pu>> \in
        Shapes \X ({{}} \cup {{v} : v \in VersionValues})
               \X {{}, {"projects"}} \X OptBool \X OptBool }

\* the payloads that are valid at version v: the required fields of the
\* version's interface and, optionally, the access flags that every
\* DatabaseStorable may carry; a v1 payload may predate the version field
ValidAt(v) ==
  LET shape == CASE v = 1 -> ShapeV1 [] v = 2 -> ShapeV2 [] v = 3 -> ShapeV3
      vers == IF v = 1 THEN {{}, {Num(1)}} ELSE {{Num(v)}}
  IN { Opt(Opt(Opt(Opt(base, "version", ver), "typeName", {"projects"}),
               "publicRead", pr), "publicUpdate", pu)
       : <<base, ver, pr, pu>> \in shape \X vers \X OptBool \X OptBool }

SettingsShapes ==
  {[theme |-> "dark", emailNotifications |-> TRUE],
   [theme |-> "sepia"],
   [theme |-> "light",
    notifications |-> [email |-> FALSE, push |-> TRUE, sms |-> FALSE],
    language |-> "nl"]}

SettingsPayloads ==
  { Opt(Opt(base, "version", ver), "typeName", tn)
    : <<base, ver, tn>> \in
        SettingsShapes \X ({{}} \cup {{v} : v \in VersionValues})
                       \X {{}, {"user_settings"}} }

WikiShapes ==
  {[slug |-> "getting-started", title |-> "Guide", content |-> "Welcome",
    lastEditedBy |-> "user-123", publicRead |-> TRUE, publicUpdate |-> pu]
   : pu \in BOOLEAN}

WikiPayloads ==
  { Opt(Opt(base, "version", ver), "typeName", tn)
    : <<base, ver, tn>> \in
        WikiShapes \X ({{}} \cup {{v} : v \in VersionValues})
                   \X {{}, {"wiki_pages"}} }

PayloadsOf(class) ==
  CASE class \in {"ProjectDocument", "Project"} -> ProjectPayloads
    [] class = "UserSettings" -> SettingsPayloads
    [] class = "WikiPage" -> WikiPayloads

\* the version a migrator detects: no version field counts as version 1
DetectedVersion(d) == IF HasField(d, "version") THEN d.version ELSE Num(1)

(***************************************************************************)
(* Migrator harness: apply migrate to a raw payload, then to its result.   *)
(***************************************************************************)
MigrateInit ==
  /\ job = JobOff
  /\ mpc = "input"
  /\ mClass \in Classes
  /\ mIn \in PayloadsOf(mClass)
  /\ mOut = Pending
  /\ mOut2 = Pending
  /\ table = {}
  /\ clock = 0
  /\ ret = Pending
  /\ spc = <<>>
  /\ sloc = <<>>
  /\ fresh = TRUE

Migrate ==
  /\ mpc = "input"
  /\ mOut' = MigrateOf(mClass, mIn)
  /\ mpc' = "migrated"
  /\ UNCHANGED <<mClass, mIn, mOut2>>
  /\ UNCHANGED <<job, storevars>>

Remigrate ==
  /\ mpc = "migrated"
  /\ ~mOut.threw
  /\ mOut2' = MigrateOf(mClass, mOut.value)
  /\ mpc' = "remigrated"
  /\ UNCHANGED <<mClass, mIn, mOut>>
  /\ UNCHANGED <<job, storevars>>

MigrateNext == Migrate \/ Remigrate

SpecMigrate == MigrateInit /\ [][MigrateNext]_vars

(***************************************************************************)
(* The storage engine: table user_data, its generated columns, its         *)
(* updated_at trigger and its row-level security policies.                 *)
(***************************************************************************)
Users == {"u1", "u2"}
\* no session: getUser() has no user and auth.uid() is NULL
Anon == "anon"
Callers == Users \cup {Anon}

\* bounds: the writes of one behaviour, the ids gen_random_uuid hands out
MaxClock == 2
NumUuids == 2

Uuid(n) == <<"uuid", n>>
Uuids == {Uuid(n) : n \in 1..NumUuids}

\* COALESCE((data->>'publicRead')::boolean, false)
Flag(data, f) == IF f \in DOMAIN data THEN data[f] ELSE FALSE

\* a row of user_data with its generated columns
StoredRow(id, user, type, data, created, updated) ==
  [id |-> id, user_id |-> user, type_name |-> type, data |-> data,
   public_read |-> Flag(data, "publicRead"),
   public_update |-> Flag(data, "publicUpdate"),
   created_at |-> created, updated_at |-> updated]

\* policies "Users read own data", "Public read access"
SelectPolicy(uid, row) == uid = row.user_id \/ row.public_read
\* policy "Users insert own data"; auth.uid() is NULL without a session
InsertCheck(uid, row) == uid # Anon /\ uid = row.user_id
\* a plausible slip: public update access without auth.uid() IS NOT NULL
UpdatePolicy_NoAuthCheck(uid, row) == uid = row.user_id \/ row.public_update
\* policies "Users update own data", "Public update access"
UpdatePolicy(uid, row) ==
  uid = row.user_id \/ (row.public_update /\ uid # Anon)
\* a plausible slip: whoever may update a public row may delete it as well
DeletePolicy_LikeUpdate(uid, row) ==
  uid = row.user_id \/ (row.public_update /\ uid # Anon)
\* policy "Users delete own data"
DeletePolicy(uid, row) == uid = row.user_id

NoError == "none"
PGRST116 == "PGRST116"
DuplicateKey == "23505"
RlsViolation == "42501"

Ids(tbl) == {r.id : r \in tbl}

\* gen_random_uuid(): an id no row has; which one makes no difference
NewUuid(tbl) ==
  Uuid(CHOOSE n \in 1..NumUuids :
         /\ Uuid(n) \notin Ids(tbl)
         /\ \A m \in 1..NumUuids : Uuid(m) \notin Ids(tbl) => n <= m)

\* INSERT INTO user_data: the policy's WITH CHECK, then the primary key
PgInsert(tbl, uid, row) ==
  IF ~InsertCheck(uid, row)
  THEN [error |-> RlsViolation, table |-> tbl]
  ELSE IF row.id \in Ids(tbl)
  THEN [error |-> DuplicateKey, table |-> tbl]
  ELSE [error |-> NoError, table |-> tbl \cup {row}]

\* a plausible slip: the row is replaced, created_at with it
Updated_Replaced(row, data, now) ==
  StoredRow(row.id, row.user_id, row.type_name, data, now, now)

\* a plausible slip: the flags are plain columns that an update leaves alone
Updated_KeepsFlags(row, data, now) ==
  [row EXCEPT !.data = data, !.updated_at = now]

\* the row as UPDATE ... SET data leaves it: trigger update_updated_at
Updated(row, data, now) ==
  StoredRow(row.id, row.user_id, row.type_name, data, row.created_at, now)

\* a plausible slip: the new row is checked against the update policies
\* only
PgUpdate_NoSelectCheck(tbl, uid, id, data, now) ==
  LET targets == {r \in tbl : r.id = id /\ SelectPolicy(uid, r)
                                /\ UpdatePolicy(uid, r)}
  IN IF \E r \in targets : ~UpdatePolicy(uid, Updated(r, data, now))
     THEN [error |-> RlsViolation, table |-> tbl]
     ELSE [error |-> NoError,
           table |-> (tbl \ targets)
                       \cup {Updated(r, data, now) : r \in targets}]

\* the new row passes the WITH CHECK of an update policy and, the statement
\* reading the table in its WHERE clause, the USING of a select policy
NewRowCheck(uid, row) == UpdatePolicy(uid, row) /\ SelectPolicy(uid, row)

\* UPDATE user_data SET data = ... WHERE id = ...: rows the caller cannot
\* see or update are skipped without an error; the new row is checked
PgUpdate(tbl, uid, id, data, now) ==
  LET targets == {r \in tbl : r.id = id /\ SelectPolicy(uid, r)
                                /\ UpdatePolicy(uid, r)}
  IN IF \E r \in targets : ~NewRowCheck(uid, Updated(r, data, now))
     THEN [error |-> RlsViolation, table |-> tbl]
     ELSE [error |-> NoError,
           table |-> (tbl \ targets)
                       \cup {Updated(r, data, now) : r \in targets}]

\* a plausible slip: the delete matches no row
PgDelete_NoRow(tbl, uid, id) == [error |-> NoError, table |-> tbl]

\* DELETE FROM user_data WHERE id = ...
PgDelete(tbl, uid, id) ==
  [error |-> NoError,
   table |-> tbl \ {r \in tbl : r.id = id /\ SelectPolicy(uid, r)
                                   /\ DeletePolicy(uid, r)}]

\* a plausible slip: a blind insert in place of the upsert
PgUpsert_BlindInsert(tbl, uid, row) ==
  IF ~InsertCheck(uid, row)
  THEN [error |-> RlsViolation, table |-> tbl]
  ELSE IF row.id \in Ids(tbl)
  THEN [error |-> DuplicateKey, table |-> tbl]
  ELSE [error |-> NoError, table |-> tbl \cup {row}]

\* INSERT ... ON CONFLICT (id) DO UPDATE of the columns sent
PgUpsert(tbl, uid, row) ==
  LET old == CHOOSE r \in tbl : r.id = row.id
      new == StoredRow(row.id, row.user_id, row.type_name, row.data,
                       old.created_at, row.updated_at)
  IN IF ~InsertCheck(uid, row)
     THEN [error |-> RlsViolation, table |-> tbl]
     ELSE IF row.id \notin Ids(tbl)
     THEN [error |-> NoError, table |-> tbl \cup {row}]
     ELSE IF ~UpdatePolicy(uid, old) \/ ~UpdatePolicy(uid, new)
     THEN [error |-> RlsViolation, table |-> tbl]
     ELSE [error |-> NoError, table |-> (tbl \ {old}) \cup {new}]

\* a plausible slip: the select policies are not applied to the single read
PgSelectSingle_NoPolicy(tbl, uid, id) ==
  LET found == {r \in tbl : r.id = id}
  IN IF Cardinality(found) = 1
     THEN [error |-> NoError, row |-> CHOOSE r \in found : TRUE]
     ELSE [error |-> PGRST116]

\* SELECT * ... WHERE id = ... .single(): PGRST116 unless exactly one row
PgSelectSingle(tbl, uid, id) ==
  LET found == {r \in tbl : r.id = id /\ SelectPolicy(uid, r)}
  IN IF Cardinality(found) = 1
     THEN [error |-> NoError, row |-> CHOOSE r \in found : TRUE]
     ELSE [error |-> PGRST116]

\* a plausible slip: the select policies are not applied to the type query
PgSelectType_NoPolicy(tbl, uid, type) == {r \in tbl : r.type_name = type}

\* SELECT * ... WHERE type_name = ...
PgSelectType(tbl, uid, type) ==
  {r \in tbl : r.type_name = type /\ SelectPolicy(uid, r)}

\* the orders in which the engine may return the rows S under ORDER BY
Perms(S) ==
  {s \in [1..Cardinality(S) -> S] : \A i, j \in DOMAIN s : s[i] = s[j] => i = j}
OrderedBy(S, Before(_, _)) ==
  {s \in Perms(S) : \A i, j \in DOMAIN s : i < j => ~Before(s[j], s[i])}

\* the texts of the model that contain the term, case-insensitively (ILIKE)
TextsContaining(term) ==
  CASE term = "test" -> {"Test", "Test Project"}
    [] term = "o" -> {"Old", "Test Project", "Welcome"}
    [] OTHER -> {}
SearchTerms == {"test"}

ILike(data, field, term) ==
  HasField(data, field) /\ data[field] \in TextsContaining(term)

(***************************************************************************)
(* Repository: documents of one type, many per user.                       *)
(***************************************************************************)
projectRepo ==
  [typeName |-> "projects", class |-> "Project",
   currentVersion |-> Examples_PROJECT_VERSION]
wikiRepo ==
  [typeName |-> "wiki_pages", class |-> "WikiPage",
   currentVersion |-> WIKI_VERSION]
Repos == {projectRepo, wikiRepo}

\* a plausible slip: the spread comes last and the document's own version
\* and type name win
Stamp_DocumentWins(repo, data) ==
  Spread([typeName |-> repo.typeName, version |-> Num(repo.currentVersion)],
         data)

\* { ...document.data, typeName: this.typeName, version: this.currentVersion }
Stamp(repo, data) ==
  Spread(data,
         [typeName |-> repo.typeName, version |-> Num(repo.currentVersion)])

\* new this.classConstructor(migrated), and the null of a row not found
Document(data) == [data |-> data]
NullDocument == [isNull |-> TRUE]
Void == [void |-> TRUE]
StorageError(code) == Throw("PostgrestError ", code)
NotAuthenticated == Throw("User not authenticated", "")

\* Repository.migrate followed by the construction of the Document
Load(repo, data) ==
  LET m == MigrateOf(repo.class, data)
  IN IF m.threw THEN m ELSE Return(Document(m.value))

Called(op, repo, uid, arg, out) ==
  [op |-> op, repo |-> repo, uid |-> uid, arg |-> arg, out |-> out]

\* a plausible slip: save does not ask for the user before the insert
Repository_save_NoAuthCheck(repo, uid, doc) ==
  /\ clock < MaxClock
  /\ UNCHANGED <<job, mvars, svars>>
  /\ Uuids \ Ids(table) # {}
  /\ LET id == NewUuid(table)
         row == StoredRow(id, uid, repo.typeName, Stamp(repo, doc),
                          clock + 1, clock + 1)
         res == PgInsert(table, uid, row)
     IN /\ table' = res.table
        /\ clock' = clock + 1
        /\ ret' = Called("save", repo, uid, doc,
                         IF res.error # NoError
                         THEN StorageError(res.error)
                         ELSE Return(id))

Repository_save(repo, uid, doc) ==
  /\ clock < MaxClock
  /\ UNCHANGED <<job, mvars, svars>>
  /\ IF uid = Anon
     THEN /\ ret' = Called("save", repo, uid, doc, NotAuthenticated)
          /\ UNCHANGED <<table, clock>>
     ELSE /\ Uuids \ Ids(table) # {}
          /\ LET id == NewUuid(table)
                 row == StoredRow(id, uid, repo.typeName, Stamp(repo, doc),
                                  clock + 1, clock + 1)
                 res == PgInsert(table, uid, row)
             IN /\ table' = res.table
                /\ clock' = clock + 1
                /\ ret' = Called("save", repo, uid, doc,
                                 IF res.error # NoError
                                 THEN StorageError(res.error)
                                 ELSE Return(id))

Repository_update(repo, uid, id, doc) ==
  /\ clock < MaxClock
  /\ UNCHANGED <<job, mvars, svars>>
  /\ LET res == PgUpdate(table, uid, id, Stamp(repo, doc), clock + 1)
     IN /\ table' = res.table
        /\ clock' = clock + 1
        /\ ret' = Called("update", repo, uid, id,
                         IF res.error # NoError
                         THEN StorageError(res.error)
                         ELSE Return(Void))

\* a plausible slip: the migrated payload is written back on read
Repository_get_WriteBack(repo, uid, id) ==
  /\ UNCHANGED <<job, mvars, svars>>
  /\ UNCHANGED clock
  /\ LET res == PgSelectSingle(table, uid, id)
         out == IF res.error = PGRST116 THEN Return(NullDocument)
                ELSE Load(repo, res.row.data)
     IN /\ ret' = Called("get", repo, uid, id, out)
        /\ table' = IF res.error = PGRST116 \/ out.threw THEN table
                    ELSE PgUpdate(table, uid, id, out.value.data,
                                  clock).table

Repository_get(repo, uid, id) ==
  /\ UNCHANGED <<job, mvars, svars>>
  /\ UNCHANGED <<table, clock>>
  /\ LET res == PgSelectSingle(table, uid, id)
     IN ret' = Called("get", repo, uid, id,
                      IF res.error = PGRST116 THEN Return(NullDocument)
                      ELSE Load(repo, res.row.data))

DefaultPageSize == 10

\* query.limit / query.range of list.  A limit of -1 stands for no limit
\* given; if (options?.limit) and if (options?.offset) take a 0 for an
\* option not given, so an offset of 0 stands for both
Page(s, limit, offset) ==
  IF offset # 0
  THEN SubSeq(s, offset + 1,
              IF Len(s) < offset + (IF limit > 0 THEN limit
                                    ELSE DefaultPageSize)
              THEN Len(s)
              ELSE offset + (IF limit > 0 THEN limit ELSE DefaultPageSize))
  ELSE IF limit > 0
  THEN SubSeq(s, 1, IF Len(s) < limit THEN Len(s) ELSE limit)
  ELSE s

\* ORDER BY created_at DESC
NewestFirst(a, b) == a.created_at > b.created_at
\* ORDER BY data->'priority' ASC (NULLS LAST)
PriorityAsc(a, b) ==
  /\ HasField(a.data, "priority")
  /\ HasField(b.data, "priority") => a.data.priority < b.data.priority
\* ORDER BY data->'priority' DESC (NULLS FIRST)
PriorityDesc(a, b) ==
  /\ HasField(b.data, "priority")
  /\ HasField(a.data, "priority") => a.data.priority > b.data.priority

ListOrders(S, orderBy, ascending) ==
  IF orderBy = "priority"
  THEN IF ascending THEN OrderedBy(S, PriorityAsc)
       ELSE OrderedBy(S, PriorityDesc)
  ELSE OrderedBy(S, NewestFirst)

\* a plausible slip: a row whose migration throws is left out of the result
MapRows_SkipFailed(repo, rows, withMetadata) ==
  LET loaded == [i \in DOMAIN rows |-> Load(repo, rows[i].data)]
      good == SelectSeq([i \in DOMAIN rows |-> i],
                        LAMBDA i : ~loaded[i].threw)
  IN Return([k \in DOMAIN good |->
               IF withMetadata
               THEN [id |-> rows[good[k]].id,
                     document |-> loaded[good[k]].value,
                     metadata |-> [created |-> rows[good[k]].created_at,
                                   updated |-> rows[good[k]].updated_at]]
               ELSE [id |-> rows[good[k]].id,
                     document |-> loaded[good[k]].value]])

\* rows.map(row => ...): the first migration that throws ends the call
MapRows(repo, rows, withMetadata) ==
  LET loaded == [i \in DOMAIN rows |-> Load(repo, rows[i].data)]
      failed == {i \in DOMAIN rows : loaded[i].threw}
  IN IF failed # {}
     THEN loaded[CHOOSE i \in failed : \A j \in failed : i <= j]
     ELSE Return([i \in DOMAIN rows |->
                    IF withMetadata
                    THEN [id |-> rows[i].id, document |-> loaded[i].value,
                          metadata |-> [created |-> rows[i].created_at,
                                        updated |-> rows[i].updated_at]]
                    ELSE [id |-> rows[i].id,
                          document |-> loaded[i].value]])

\* bounds of the pages asked for
MaxLimit == 1
MaxOffset == 1

ListOptions ==
  [limit : (-1)..MaxLimit, offset : 0..MaxOffset, orderBy : {""},
   ascending : {TRUE}]
    \cup [limit : {-1}, offset : {0}, orderBy : {"priority"},
          ascending : BOOLEAN]

Repository_list(repo, uid, options) ==
  /\ UNCHANGED <<job, mvars, svars>>
  /\ UNCHANGED <<table, clock>>
  /\ \E rows \in ListOrders(PgSelectType(table, uid, repo.typeName),
                            options.orderBy, options.ascending) :
       ret' = Called("list", repo, uid, options,
                     MapRows(repo, Page(rows, options.limit, options.offset),
                             TRUE))

Repository_delete(repo, uid, id) ==
  /\ clock < MaxClock
  /\ UNCHANGED <<job, mvars, svars>>
  /\ LET res == PgDelete(table, uid, id)
     IN /\ table' = res.table
        /\ clock' = clock + 1
        /\ ret' = Called("delete", repo, uid, id, Return(Void))

SearchFields == {{"title", "description"}}

Repository_search(repo, uid, searchTerm, fields) ==
  /\ UNCHANGED <<job, mvars, svars>>
  /\ UNCHANGED <<table, clock>>
  /\ \E rows \in Perms({r \in PgSelectType(table, uid, repo.typeName) :
                          \E f \in fields : ILike(r.data, f, searchTerm)}) :
       ret' = Called("search", repo, uid, <<searchTerm, fields>>,
                     MapRows(repo, rows, FALSE))

(***************************************************************************)
(* SingletonRepository: one document per user, under a deterministic id.   *)
(* get() takes two requests to the storage engine, the select and the      *)
(* insert of the default; requests of other calls may come in between.     *)
(***************************************************************************)
settingsRepo ==
  [typeName |-> "user_settings", class |-> "UserSettings",
   currentVersion |-> SETTINGS_VERSION]

\* the default factory given to settingsRepo
defaultData ==
  [version |-> Num(SETTINGS_VERSION), typeName |-> "user_settings",
   theme |-> "auto",
   notifications |-> [email |-> TRUE, push |-> FALSE, sms |-> FALSE],
   language |-> "en"]

\* bound: the requests in flight
NumProcs == 2
Procs == 1..NumProcs

\* a plausible slip: the user is left out of the id
getDeterministicId_TypeOnly(repo, uid) == <<repo.typeName>>

\* `${this.typeName}_${userId}`
getDeterministicId(repo, uid) == <<repo.typeName, uid>>

NotApplicable == "n/a"
SingletonCalled(op, p, uid, insertError, out) ==
  [op |-> op, repo |-> settingsRepo, uid |-> uid,
   arg |-> [proc |-> p, insertError |-> insertError], out |-> out]

\* get(): getDeterministicId and the select by id
Singleton_get_select(p, uid) ==
  /\ spc[p] = "idle"
  /\ UNCHANGED <<job, mvars, table, clock, fresh>>
  /\ IF uid = Anon
     THEN /\ ret' = SingletonCalled("get", p, uid, NotApplicable,
                                    NotAuthenticated)
          /\ UNCHANGED <<spc, sloc>>
     ELSE LET res == PgSelectSingle(table, uid,
                                    getDeterministicId(settingsRepo, uid))
          IN IF res.error = PGRST116
             THEN /\ spc' = [spc EXCEPT ![p] = "insert"]
                  /\ sloc' = [sloc EXCEPT ![p] = uid]
                  /\ UNCHANGED ret
             ELSE /\ ret' = SingletonCalled("get", p, uid, NotApplicable,
                                            Load(settingsRepo, res.row.data))
                  /\ UNCHANGED <<spc, sloc>>

\* a plausible slip: a duplicate key is thrown like any other insert error
Singleton_get_insert_ThrowDuplicate(p) ==
  /\ spc[p] = "insert"
  /\ UNCHANGED <<job, mvars, fresh>>
  /\ LET uid == sloc[p]
         defaultDoc == Stamp(settingsRepo, defaultData)
         row == StoredRow(getDeterministicId(settingsRepo, uid), uid,
                          settingsRepo.typeName, defaultDoc,
                          clock + 1, clock + 1)
         res == PgInsert(table, uid, row)
     IN /\ res.error = NoError => clock < MaxClock
        /\ table' = res.table
        /\ clock' = IF res.error = NoError THEN clock + 1 ELSE clock
        /\ sloc' = [sloc EXCEPT ![p] = Anon]
        /\ spc' = [spc EXCEPT ![p] = "idle"]
        /\ ret' = SingletonCalled("get", p, uid, res.error,
                                  IF res.error # NoError
                                  THEN StorageError(res.error)
                                  ELSE Return(Document(defaultDoc)))

\* get(): not found, insert the default and return it
Singleton_get_insert(p) ==
  /\ spc[p] = "insert"
  /\ UNCHANGED <<job, mvars, fresh>>
  /\ LET uid == sloc[p]
         defaultDoc == Stamp(settingsRepo, defaultData)
         row == StoredRow(getDeterministicId(settingsRepo, uid), uid,
                          settingsRepo.typeName, defaultDoc,
                          clock + 1, clock + 1)
         res == PgInsert(table, uid, row)
     IN /\ res.error = NoError => clock < MaxClock
        /\ table' = res.table
        /\ clock' = IF res.error = NoError THEN clock + 1 ELSE clock
        /\ sloc' = [sloc EXCEPT ![p] = Anon]
        /\ spc' = [spc EXCEPT ![p] = "idle"]
        /\ ret' = SingletonCalled("get", p, uid, res.error,
                                  IF res.error \notin {NoError, DuplicateKey}
                                  THEN StorageError(res.error)
                                  ELSE Return(Document(defaultDoc)))

\* the documents handed to save: current, and stale, mistyped and public
SettingsDocs ==
  {[defaultData EXCEPT !.theme = "dark"],
   [version |-> Num(1), typeName |-> "projects", theme |-> "light",
    notifications |-> [email |-> FALSE, push |-> FALSE, sms |-> FALSE],
    language |-> "nl", publicRead |-> TRUE]}

Singleton_save(p, uid, doc) ==
  /\ spc[p] = "idle"
  /\ clock < MaxClock
  /\ UNCHANGED <<job, mvars, spc, sloc>>
  /\ fresh' = FALSE
  /\ IF uid = Anon
     THEN /\ ret' = SingletonCalled("save", p, uid, NotApplicable,
                                    NotAuthenticated)
          /\ UNCHANGED <<table, clock>>
     ELSE LET row == StoredRow(getDeterministicId(settingsRepo, uid), uid,
                               settingsRepo.typeName,
                               Stamp(settingsRepo, doc), clock + 1, clock + 1)
              res == PgUpsert(table, uid, row)
          IN /\ table' = res.table
             /\ clock' = clock + 1
             /\ ret' = SingletonCalled("save", p, uid, NotApplicable,
                                       IF res.error # NoError
                                       THEN StorageError(res.error)
                                       ELSE Return(Void))

Singleton_delete(p, uid) ==
  /\ spc[p] = "idle"
  /\ clock < MaxClock
  /\ UNCHANGED <<job, mvars, spc, sloc>>
  /\ fresh' = FALSE
  /\ IF uid = Anon
     THEN /\ ret' = SingletonCalled("delete", p, uid, NotApplicable,
                                    NotAuthenticated)
          /\ UNCHANGED <<table, clock>>
     ELSE LET res == PgDelete(table, uid,
                              getDeterministicId(settingsRepo, uid))
          IN /\ table' = res.table
             /\ clock' = clock + 1
             /\ ret' = SingletonCalled("delete", p, uid, NotApplicable,
                                       Return(Void))

(***************************************************************************)
(* The rows an earlier deployment left behind, and the documents callers   *)
(* hand to save and update.                                                *)
(***************************************************************************)
LegacyProject ==
  StoredRow(Uuid(0), "u1", "projects",
            [title |-> "Old", owner |-> "user-1", description |-> ""],
            -1, -1)
LegacyPublic ==
  StoredRow(Uuid(-1), "u2", "projects",
            [version |-> Num(1), typeName |-> "projects",
             title |-> "Test Project", owner |-> "user-123",
             description |-> "Test", publicRead |-> TRUE],
            -2, -2)
LegacySettings ==
  StoredRow(getDeterministicId(settingsRepo, "u1"), "u1", "user_settings",
            [version |-> Num(1), typeName |-> "user_settings",
             theme |-> "dark", emailNotifications |-> TRUE],
            -3, -3)

\* the documents handed to save and update: current and private, and
\* stale, mistyped and public
ProjectDocs ==
  {[version |-> Num(2), typeName |-> "projects", title |-> "Test",
    members |-> <<"user-1">>, description |-> "Test", priority |-> 8],
   [version |-> Num(1), typeName |-> "wiki_pages", title |-> "Test Project",
    members |-> <<"user-1">>, description |-> "", priority |-> 3,
    publicRead |-> TRUE, publicUpdate |-> TRUE]}

WikiDocs ==
  {[version |-> Num(WIKI_VERSION), typeName |-> "wiki_pages",
    slug |-> "getting-started", title |-> "Guide", content |-> "Welcome",
    lastEditedBy |-> "user-123", publicRead |-> TRUE, publicUpdate |-> TRUE],
   [version |-> Num(WIKI_VERSION), typeName |-> "wiki_pages",
    slug |-> "getting-started", title |-> "Guide", content |-> "Hidden",
    lastEditedBy |-> "user-456", publicRead |-> FALSE,
    publicUpdate |-> TRUE]}

DocsOf(repo) == IF repo = projectRepo THEN ProjectDocs ELSE WikiDocs

\* the ids a caller may name: those of the rows and one that no row has
NoSuchId == Uuid(-9)
KnownIds == Ids(table) \cup {NoSuchId}

MigratorOff ==
  /\ mpc = "off"
  /\ mClass = "ProjectDocument"
  /\ mIn = Pending
  /\ mOut = Pending
  /\ mOut2 = Pending

SingletonIdle ==
  /\ spc = [p \in Procs |-> "idle"]
  /\ sloc = [p \in Procs |-> Anon]

Init ==
  /\ job = JobOff
  /\ MigratorOff
  /\ SingletonIdle
  /\ table \in {{}, {LegacyProject, LegacyPublic, LegacySettings}}
  /\ clock = 0
  /\ ret = Pending
  /\ fresh = (table = {})

RepositoryNext ==
  \E repo \in Repos, uid \in Callers :
     \/ \E doc \in DocsOf(repo) : Repository_save(repo, uid, doc)
     \/ \E id \in KnownIds, doc \in DocsOf(repo) :
          Repository_update(repo, uid, id, doc)
     \/ \E id \in KnownIds : Repository_get(repo, uid, id)
     \/ \E options \in ListOptions : Repository_list(repo, uid, options)
     \/ \E id \in KnownIds : Repository_delete(repo, uid, id)
     \/ \E term \in SearchTerms, fields \in SearchFields :
          Repository_search(repo, uid, term, fields)

\* the calls of a SingletonRepository that take one request
SingletonWriteNext ==
  \E p \in Procs, uid \in Callers :
     \/ \E doc \in SettingsDocs : Singleton_save(p, uid, doc)
     \/ Singleton_delete(p, uid)

\* get() of a SingletonRepository, which takes two
SingletonGetNext ==
  \E p \in Procs :
     \/ \E uid \in Callers : Singleton_get_select(p, uid)
     \/ Singleton_get_insert(p)

SingletonNext == SingletonGetNext \/ SingletonWriteNext

\* every call that is one request to the storage engine, in any order
Next == RepositoryNext \/ SingletonWriteNext

Spec == Init /\ [][Next]_vars

\* the singleton repository alone, from an empty store or a legacy row
SingletonInit ==
  /\ job = JobOff
  /\ MigratorOff
  /\ SingletonIdle
  /\ table \in SUBSET {LegacySettings}
  /\ clock = 0
  /\ ret = Pending
  /\ fresh = (table = {})

SpecSingleton == SingletonInit /\ [][SingletonNext]_vars

(***************************************************************************)
(* The bulk migration job bulkMigrateProjects, run with the service role   *)
(* key, which bypasses row-level security.                                 *)
(***************************************************************************)
\* .lt('data->version', 3)
BulkTargetVersion == 3

\* data->version < n as jsonb: NULL, hence not selected, when the payload
\* has no version; a JSON null and a string sort below every number
JsonLess(data, n) ==
  /\ HasField(data, "version")
  /\ \/ data.version[1] \in {"null", "string"}
     \/ data.version[1] \in {"number", "number+0.5"} /\ data.version[2] < n

\* select('id, data').eq('type_name', 'projects').lt('data->version', 3)
PgSelectOld(tbl) ==
  {r \in tbl : r.type_name = "projects" /\ JsonLess(r.data, BulkTargetVersion)}

\* update({ data }).eq('id', id) under the service role: no policy applies
PgUpdateAdmin(tbl, id, data, now) ==
  {IF r.id = id THEN Updated(r, data, now) ELSE r : r \in tbl}

\* rows the earlier deployments and a foreign writer left in the table
StaleV2 ==
  StoredRow(Uuid(1), "u1", "projects",
            [version |-> Num(2), typeName |-> "projects", title |-> "Test",
             members |-> <<"user-1">>, description |-> "Test",
             priority |-> 8],
            -4, -4)
CurrentV3 ==
  StoredRow(Uuid(2), "u2", "projects",
            [version |-> Num(3), typeName |-> "projects", title |-> "Test",
             members |-> <<"user-1">>, description |-> "Test",
             priority |-> 8, tags |-> <<"important">>],
            -5, -5)
VersionZero ==
  StoredRow(Uuid(-2), "u1", "projects",
            [version |-> Num(0), typeName |-> "projects", title |-> "Old",
             owner |-> "user-1", description |-> ""],
            -6, -6)
WikiRow ==
  StoredRow(Uuid(-3), "u2", "wiki_pages",
            [version |-> Num(1), typeName |-> "wiki_pages",
             slug |-> "getting-started", title |-> "Guide",
             content |-> "Welcome", lastEditedBy |-> "user-123",
             publicRead |-> TRUE, publicUpdate |-> TRUE],
            -7, -7)
BulkRows ==
  {LegacyProject, LegacyPublic, LegacySettings, StaleV2, CurrentV3,
   VersionZero, WikiRow}

\* bound: the rows in the table when the job starts
MaxRows == 3
\* bound: the times the job is started, the first run included
MaxRuns == 2

\* the script names its migrator "Project" and imports no class: the class
\* of the usage examples (current version 2) or the ProjectDocument class
\* (current version 3) may be the one bound to the name
BulkClasses == {"Project", "ProjectDocument"}

BulkInit ==
  /\ MigratorOff
  /\ SingletonIdle
  /\ table \in {t \in SUBSET BulkRows : Cardinality(t) <= MaxRows}
  /\ clock = 0
  /\ ret = Pending
  /\ fresh = FALSE
  /\ \E class \in BulkClasses, dryRun \in BOOLEAN :
        job = [pc |-> "select", class |-> class, dryRun |-> dryRun,
               before |-> table, oldDocs |-> <<>>, i |-> 0,
               attempted |-> {}, exit |-> -1, error |-> Pending,
               selectFailed |-> FALSE, rejected |-> {},
               runs |-> 1, interrupted |-> FALSE]

\* const { data: oldDocs } = await supabaseAdmin.from('user_data')...
\* Only data is taken from the answer: when the engine answers with an
\* error, oldDocs is null and (oldDocs?.length || 0) is 0
Bulk_select ==
  /\ job.pc = "select"
  /\ \/ \E docs \in Perms(PgSelectOld(table)) :
           job' = [job EXCEPT !.pc = "loop", !.i = 1,
                      !.oldDocs = [k \in DOMAIN docs |->
                                     [id |-> docs[k].id,
                                      data |-> docs[k].data]]]
     \/ job' = [job EXCEPT !.pc = "loop", !.i = 1, !.oldDocs = <<>>,
                    !.selectFailed = TRUE]
  /\ UNCHANGED <<mvars, storevars>>

\* one iteration of for (const doc of batch): migrate, then update; an
\* Error thrown by migrate leaves the function and ends the process with
\* status 1 after console.error('Migration failed:', err).  The answer of
\* the update is not looked at: when the engine answers with an error the
\* row is not written and the loop goes on
Bulk_migrateRow ==
  /\ job.pc = "loop"
  /\ job.i <= Len(job.oldDocs)
  /\ LET doc == job.oldDocs[job.i]
         migrated == MigrateOf(job.class, doc.data)
     IN IF migrated.threw
        THEN /\ job' = [job EXCEPT !.pc = "exited", !.exit = 1,
                           !.error = migrated,
                           !.attempted = @ \cup {doc.id}]
             /\ UNCHANGED <<table, clock>>
        ELSE \/ /\ table' = PgUpdateAdmin(table, doc.id, migrated.value,
                                          clock + 1)
                /\ clock' = clock + 1
                /\ job' = [job EXCEPT !.i = @ + 1,
                              !.attempted = @ \cup {doc.id}]
             \/ /\ UNCHANGED <<table, clock>>
                /\ job' = [job EXCEPT !.i = @ + 1,
                              !.attempted = @ \cup {doc.id},
                              !.rejected = @ \cup {doc.id}]
  /\ UNCHANGED <<mvars, svars, ret>>

\* console.log('Migration complete!') and process.exit(0)
Bulk_complete ==
  /\ job.pc = "loop"
  /\ job.i > Len(job.oldDocs)
  /\ job' = [job EXCEPT !.pc = "exited", !.exit = 0]
  /\ UNCHANGED <<mvars, storevars>>

\* the script is run again, after the process was stopped in its loop or
\* after it exited
Bulk_restart ==
  /\ job.pc \in {"loop", "exited"}
  /\ job.runs < MaxRuns
  /\ job' = [job EXCEPT !.pc = "select", !.oldDocs = <<>>, !.i = 0,
                 !.attempted = {}, !.exit = -1, !.error = Pending,
                 !.selectFailed = FALSE, !.rejected = {},
                 !.runs = @ + 1,
                 !.interrupted = (job.pc = "loop"
                                    /\ job.i <= Len(job.oldDocs))]
  /\ UNCHANGED <<mvars, storevars>>

BulkNext == Bulk_select \/ Bulk_migrateRow \/ Bulk_complete \/ Bulk_restart

SpecBulk == BulkInit /\ [][BulkNext]_vars

\* the job runs while the application serves requests: a caller's
\* Repository.update of a project may be committed between any two of the
\* job's requests
Bulk_concurrentUpdate ==
  \E uid \in Users, id \in Ids(table), doc \in ProjectDocs :
     Repository_update(projectRepo, uid, id, doc)

BulkConcurrentNext == BulkNext \/ Bulk_concurrentUpdate

SpecBulkConcurrent == BulkInit /\ [][BulkConcurrentNext]_vars

(***************************************************************************)
(* Claims about the migrators, checked under SpecMigrate.                  *)
(***************************************************************************)
MigratedProjectDocument == mpc # "input" /\ mClass = "ProjectDocument"
RecognizedVersions(class) == {Num(n) : n \in 1..CurrentVersionOf(class)}
SomeValidVersion == \E v \in 1..PROJECT_VERSION : mIn \in ValidAt(v)

\* C1 as stated: ProjectDocument.migrate of a valid payload of a supported
\* version returns version 3 and exactly the seven fields version, typeName,
\* title, members, description, priority, tags.
C1_ExactlySevenFields ==
  (MigratedProjectDocument /\ SomeValidVersion)
    => /\ ~mOut.threw
       /\ mOut.value.version = Num(PROJECT_VERSION)
       /\ DOMAIN mOut.value = CurrentFields

\* C1 amended: ProjectDocument.migrate of a valid payload of a supported
\* version returns version 3 with all seven required fields and no field
\* more, except the optional access flags publicRead and publicUpdate when
\* the input carried them.
C1_CurrentSchemaFields ==
  (MigratedProjectDocument /\ SomeValidVersion)
    => /\ ~mOut.threw
       /\ mOut.value.version = Num(PROJECT_VERSION)
       /\ CurrentFields \subseteq DOMAIN mOut.value
       /\ DOMAIN mOut.value
            \subseteq CurrentFields \cup (FlagFields \cap DOMAIN mIn)

C1_Witness ==
  /\ MigratedProjectDocument
  /\ mIn \in ValidAt(2)
  /\ ~mOut.threw
  /\ "tags" \in DOMAIN mOut.value
  /\ "publicRead" \in DOMAIN mOut.value

\* C4: migrate of a payload whose version is above the current version or is
\* not one of the integers 1..currentVersion throws an error whose message
\* names that version, and returns nothing.
C4_UnknownVersion ==
  (mpc # "input" /\ HasField(mIn, "version")
     /\ mIn.version \notin RecognizedVersions(mClass))
    => mOut.threw /\ mOut.message[2] = mIn.version

C4_Witness ==
  /\ mpc = "migrated"
  /\ HasField(mIn, "version")
  /\ mIn.version = Num(FarVersion)
  /\ mOut.threw
  /\ mOut.message[2] = Num(FarVersion)

\* C5: migrate returns a payload at the current version unchanged, field for
\* field, and migrating a migrated payload again changes nothing.
C5_FixedPoint ==
  /\ (mpc # "input" /\ HasField(mIn, "version")
        /\ mIn.version = Num(CurrentVersionOf(mClass)))
       => mOut = Return(mIn)
  /\ mpc = "remigrated" => mOut2 = mOut

C5_Witness ==
  /\ mpc = "remigrated"
  /\ mIn \in ValidAt(3)
  /\ mIn.tags # <<>>
  /\ mOut2 = Return(mIn)

\* C6: the unversioned payload {title, owner, description} migrates to
\* exactly {version 3, typeName projects, title, members [owner],
\* description, priority 5, tags []}, without an owner field.
C6_V1Chain ==
  (MigratedProjectDocument /\ DOMAIN mIn = {"title", "owner", "description"})
    => mOut = Return([version |-> Num(3), typeName |-> "projects",
                      title |-> mIn.title, members |-> <<mIn.owner>>,
                      description |-> mIn.description, priority |-> 5,
                      tags |-> <<>>])

C6_Witness ==
  /\ MigratedProjectDocument
  /\ mIn = [title |-> "Test Project", owner |-> "user-123",
            description |-> "Test"]
  /\ ~mOut.threw
  /\ mOut.value.members = <<"user-123">>

\* C7: a payload at the current version whose fields do not match the
\* current schema (a required field missing, an unexpected field present)
\* is rejected by migrate.
C7_SchemaViolation ==
  (MigratedProjectDocument /\ HasField(mIn, "version")
     /\ mIn.version = Num(PROJECT_VERSION)
     /\ ~(/\ CurrentFields \subseteq DOMAIN mIn
          /\ DOMAIN mIn \subseteq CurrentFields \cup FlagFields))
    => mOut.threw

(***************************************************************************)
(* Claims about the repositories, checked under Spec.                      *)
(***************************************************************************)
Stamped(row, repo) ==
  /\ row.data.version = Num(repo.currentVersion)
  /\ row.data.typeName = repo.typeName

\* every action of Spec records its call in ret, so that ret' tells which
\* call a step is
C2_Step ==
  (ret'.op \in {"save", "update"} /\ ~ret'.out.threw)
    => /\ \A r \in table' \ table : Stamped(r, ret'.repo)
       /\ ret'.op = "save"
            => \E r \in table' \ table :
                  r.id = (IF ret'.repo = settingsRepo
                          THEN <<"user_settings", ret'.uid>>
                          ELSE ret'.out.value)
       /\ (ret'.op = "update" /\ table' # table)
            => \E r \in table' \ table : r.id = ret'.arg

\* C2: the row written by a successful Repository.save, Repository.update
\* or SingletonRepository.save carries the repository's currentVersion and
\* typeName, whatever version and typeName the document passed in carried.
C2_VersionStamping == [][C2_Step]_vars

C2_Witness ==
  /\ ret # Pending
  /\ ret.op = "update"
  /\ ret.arg \in Ids(table)
  /\ \E r \in table :
        /\ r.id = ret.arg
        /\ r.updated_at = clock
        /\ r.created_at < 0
        /\ Stamped(r, ret.repo)

ReadStep == ret'.repo \in Repos /\ ret'.op \in {"get", "list", "search"}

\* C3: Repository.get, list and search leave every stored row as it was,
\* also when the row is at an older version and the document returned was
\* migrated.
C3_ReadsDoNotWrite == [][ReadStep => table' = table]_vars

C3_Witness ==
  /\ ret # Pending
  /\ ret.op = "get"
  /\ ~ret.out.threw
  /\ ret.out.value # NullDocument
  /\ \E r \in table :
        /\ r.id = ret.arg
        /\ r.type_name = ret.repo.typeName
        /\ ~HasField(r.data, "version")
        /\ ret.out.value.data.version = Num(ret.repo.currentVersion)

(***************************************************************************)
(* Claims about the SingletonRepository, checked under SpecSingleton.      *)
(***************************************************************************)
SingletonRows(u) ==
  {r \in table : r.type_name = "user_settings" /\ r.user_id = u}
DefaultDocument ==
  Document([version |-> Num(2), typeName |-> "user_settings",
            theme |-> "auto",
            notifications |-> [email |-> TRUE, push |-> FALSE, sms |-> FALSE],
            language |-> "en"])
GetReturned == ret # Pending /\ ret.op = "get" /\ ~ret.out.threw

C9_Step ==
  \A p \in Procs :
     Singleton_get_insert(p)
       => LET id == <<"user_settings", ret'.uid>>
          IN /\ ~ret'.out.threw
             /\ HasField(ret'.out.value, "data")
             /\ ret'.arg.insertError =
                  (IF id \in Ids(table) THEN DuplicateKey ELSE NoError)
             /\ Cardinality({r \in table' : r.id = id}) = 1

C10_Step ==
  \A p \in Procs :
     (Singleton_get_insert(p) /\ ret'.arg.insertError = DuplicateKey)
       => \E r \in table' :
             /\ r.id = <<"user_settings", ret'.uid>>
             /\ ret'.out = Return(Document(r.data))

\* C10: when the insert of get()'s default is rejected as a duplicate, the
\* Document that get() returns carries the payload stored in the row.
C10_ReturnsWinnersRow == [][C10_Step]_vars

(***************************************************************************)
(* Claims about the bulk migration job, checked under SpecBulk.            *)
(***************************************************************************)
JobExited == job.pc = "exited"
\* a project row below the target version; no version counts as version 1
StaleProject(r) ==
  /\ r.type_name = "projects"
  /\ DetectedVersion(r.data) \in {Num(n) : n \in 1..(BulkTargetVersion - 1)}
SelectedIds == {job.oldDocs[k].id : k \in DOMAIN job.oldDocs}
FailingIds ==
  {job.oldDocs[k].id : k \in {j \in DOMAIN job.oldDocs :
                                 MigrateOf(job.class, job.oldDocs[j].data).threw}}

\* C11: after the job ran to completion without a failure, every project
\* row that was below the target version is stored at the target version,
\* the selection (version < 3) returns no row, and the rows of other types
\* are as they were.
C11_BulkConvergence ==
  (JobExited /\ job.exit = 0)
    => /\ \A r \in job.before :
             StaleProject(r)
               => \E q \in table :
                     /\ q.id = r.id
                     /\ HasField(q.data, "version")
                     /\ q.data.version = Num(BulkTargetVersion)
       /\ PgSelectOld(table) = {}
       /\ \A r \in job.before : r.type_name # "projects" => r \in table

\* C12: a step of the job run in dry-run mode leaves the table as it was.
C12_DryRunWritesNothing ==
  [][(job.pc # "off" /\ job.dryRun) => table' = table]_vars

\* C13: when the migration of a selected row fails, the job has attempted
\* every selected row by the time it exits, the failing row keeps its
\* payload, every other row is as it was or holds its migrated payload, the
\* exit status is 1 and the error reported names the failing row's id.
C13_ContinueAndReport ==
  (JobExited /\ FailingIds # {})
    => /\ job.attempted = SelectedIds
       /\ \A r \in job.before : r.id \in FailingIds => r \in table
       /\ \A r \in table :
             \/ r \in job.before
             \/ \E b \in job.before :
                   /\ b.id = r.id
                   /\ ~MigrateOf(job.class, b.data).threw
                   /\ r.data = MigrateOf(job.class, b.data).value
       /\ job.exit = 1
       /\ job.error # Pending
       /\ job.error.message[2] \in FailingIds

(***************************************************************************)
(* Claims about row-level security, checked under Spec.                    *)
(***************************************************************************)
RepositoryStep(op) == ret'.repo \in Repos /\ ret'.op = op
\* what the access rules of the repository say, in the rows' own terms
MayRead(uid, r) == r.user_id = uid \/ r.public_read = TRUE
MayUpdate(uid, r) ==
  r.user_id = uid \/ (r.public_update = TRUE /\ uid \in Users)

C14_Step ==
  (/\ RepositoryStep("get")
   /\ \/ ret'.arg \notin Ids(table)
      \/ \E r \in table : /\ r.id = ret'.arg
                          /\ r.user_id # ret'.uid
                          /\ r.public_read = FALSE)
    => ret'.out = Return(NullDocument) /\ table' = table

\* C14: get of a row that another identity owns and that is not public
\* returns null without an error, which is what get of an id that no row
\* has returns.
C14_VisibilityCollapse == [][C14_Step]_vars

C14_Witness ==
  /\ ret # Pending
  /\ ret.repo \in Repos
  /\ ret.op = "get"
  /\ ret.out = Return(NullDocument)
  /\ \E r \in table : /\ r.id = ret.arg
                      /\ r.type_name = ret.repo.typeName
                      /\ r.user_id # ret.uid
                      /\ ret.uid \in Users
                      /\ ~r.public_read

C15_Step ==
  /\ (RepositoryStep("get") /\ ~ret'.out.threw
        /\ ret'.out.value # NullDocument)
       => \E r \in table : r.id = ret'.arg /\ MayRead(ret'.uid, r)
  /\ ((RepositoryStep("list") \/ RepositoryStep("search"))
        /\ ~ret'.out.threw)
       => \A k \in DOMAIN ret'.out.value :
             \E r \in table : /\ r.id = ret'.out.value[k].id
                              /\ MayRead(ret'.uid, r)

\* C15: get, list and search return a row's document only to the row's
\* owner or when the row's public_read is true.
C15_ReadsAreAuthorised == [][C15_Step]_vars

C15_Witness ==
  /\ ret # Pending
  /\ ret.repo \in Repos
  /\ ret.op = "list"
  /\ ~ret.out.threw
  /\ Len(ret.out.value) = 1
  /\ \E r \in table : /\ r.id = ret.out.value[1].id
                      /\ r.user_id # ret.uid
                      /\ r.public_read
  /\ \E r \in table : /\ r.type_name = ret.repo.typeName
                      /\ r.user_id # ret.uid
                      /\ ~r.public_read

C16_Step ==
  RepositoryStep("update")
    => \A r \in table :
          r \notin table' => r.id = ret'.arg /\ MayUpdate(ret'.uid, r)

\* C16: a row's stored payload changes through Repository.update only when
\* the caller owns the row, or the row's public_update is true and the
\* caller is authenticated; any other update leaves the row as it was.
C16_UpdatesAreAuthorised == [][C16_Step]_vars

C16_Witness ==
  /\ ret # Pending
  /\ ret.repo \in Repos
  /\ ret.op = "update"
  /\ ret.uid \in Users
  /\ \E r \in table : /\ r.id = ret.arg
                      /\ r.user_id # ret.uid
                      /\ ~r.public_update
                      /\ r.updated_at < 0

C17_Step ==
  /\ (RepositoryStep("update")
        /\ \E r \in table : r.id = ret'.arg /\ ~MayUpdate(ret'.uid, r))
       => ret'.out.threw
  /\ (RepositoryStep("delete")
        /\ \E r \in table : r.id = ret'.arg /\ r.user_id # ret'.uid)
       => ret'.out.threw

\* C17: update of a row the caller may not update, and delete of a row the
\* caller does not own, fail with an error; they never return success.
C17_DeniedWritesFail == [][C17_Step]_vars

C18_Step ==
  \A r \in table :
     r.id \notin Ids(table') => ret'.op = "delete" /\ ret'.uid = r.user_id

\* C18: a row leaves the store only through a delete issued by its owner,
\* also when its public_update is true.
C18_OnlyOwnerDeletes == [][C18_Step]_vars

C18_Witness ==
  /\ ret # Pending
  /\ ret.repo \in Repos
  /\ ret.op = "delete"
  /\ ret.uid \in Users
  /\ \E r \in table : /\ r.id = ret.arg
                      /\ r.user_id # ret.uid
                      /\ r.public_update

C19_Step ==
  RepositoryStep("save")
    => /\ ret'.uid = Anon
            => ret'.out = NotAuthenticated /\ table' = table
       /\ ~ret'.out.threw
            => /\ table \subseteq table'
               /\ Cardinality(table' \ table) = 1
               /\ \A r \in table' \ table :
                     /\ r.user_id = ret'.uid
                     /\ r.type_name = ret'.repo.typeName
                     /\ r.id = ret'.out.value
                     /\ r.id \notin Ids(table)

\* C19: save without a caller identity throws 'User not authenticated' and
\* inserts nothing; a save that succeeds inserts exactly one new row, owned
\* by the caller, of the repository's type, and returns its id.
C19_SaveInsertsOwnRow == [][C19_Step]_vars

C19_Witness ==
  /\ ret # Pending
  /\ ret.repo \in Repos
  /\ ret.op = "save"
  /\ ~ret.out.threw
  /\ ret.arg.typeName # ret.repo.typeName
  /\ \E r \in table : /\ r.id = ret.out.value
                      /\ r.user_id = ret.uid
                      /\ r.type_name = ret.repo.typeName

\* C20: every row's public_read is its payload's publicRead and its
\* public_update is its payload's publicUpdate, false when absent.
C20_FlagsFollowPayload ==
  \A r \in table :
     /\ r.public_read
          = (IF "publicRead" \in DOMAIN r.data THEN r.data.publicRead
             ELSE FALSE)
     /\ r.public_update
          = (IF "publicUpdate" \in DOMAIN r.data THEN r.data.publicUpdate
             ELSE FALSE)

C20_Witness ==
  \E r \in table : /\ r.created_at < 0
                   /\ r.updated_at > 0
                   /\ r.public_update
                   /\ "publicUpdate" \in DOMAIN r.data

(***************************************************************************)
(* Claims about list and search, checked under Spec.                       *)
(***************************************************************************)
\* the rows of the repository's type that the caller of the step may read
VisibleRows ==
  {r \in table : r.type_name = ret'.repo.typeName /\ MayRead(ret'.uid, r)}
MatchingRows ==
  {r \in VisibleRows : \E f \in ret'.arg[2] : ILike(r.data, f, ret'.arg[1])}
FailsToMigrate(r) == MigrateOf(ret'.repo.class, r.data).threw
Least(a, b) == IF a < b THEN a ELSE b
\* the number of rows of a page of n rows, an unset or zero limit allowed
PageLen(n, limit, offset) ==
  IF limit <= 0 /\ offset = 0 THEN n
  ELSE IF n <= offset THEN 0
  ELSE Least(n - offset, IF limit > 0 THEN limit ELSE DefaultPageSize)

C21_Step ==
  /\ RepositoryStep("list")
       => /\ ret'.out.threw
               => \E r \in VisibleRows :
                     ret'.out = MigrateOf(ret'.repo.class, r.data)
          /\ ~ret'.out.threw
               => Len(ret'.out.value)
                    = PageLen(Cardinality(VisibleRows), ret'.arg.limit,
                              ret'.arg.offset)
          /\ (ret'.arg.limit <= 0 /\ ret'.arg.offset = 0
                /\ \E r \in VisibleRows : FailsToMigrate(r))
               => ret'.out.threw
  /\ RepositoryStep("search")
       => /\ ret'.out.threw
               => \E r \in MatchingRows :
                     ret'.out = MigrateOf(ret'.repo.class, r.data)
          /\ ~ret'.out.threw
               => Len(ret'.out.value) = Cardinality(MatchingRows)
          /\ (\E r \in MatchingRows : FailsToMigrate(r)) => ret'.out.threw

\* C21: list and search throw the migration error when the migration of a
\* row of the result fails; a result that is returned has every row of the
\* page, none is skipped.
C21_ListFailsAsAWhole == [][C21_Step]_vars

C21_Witness ==
  /\ ret # Pending
  /\ ret.repo \in Repos
  /\ ret.op = "list"
  /\ ret.out.threw
  /\ \E r \in table : /\ r.type_name = ret.repo.typeName
                      /\ MayRead(ret.uid, r)
                      /\ ret.out = MigrateOf(ret.repo.class, r.data)

WrittenByARepository(r) == r.updated_at > 0

\* C22: every row that a save, update or upsert has written holds a payload
\* whose typeName is the row's type_name.
C22_TypeNameEchoesColumn ==
  \A r \in table :
     WrittenByARepository(r)
       => HasField(r.data, "typeName") /\ r.data.typeName = r.type_name

\* the current version of the repository that serves rows of this type
CurrentVersionOfType(type) ==
  CASE type = "projects" -> projectRepo.currentVersion
    [] type = "wiki_pages" -> wikiRepo.currentVersion
    [] type = "user_settings" -> settingsRepo.currentVersion
StoredBelowCurrent(r) ==
  DetectedVersion(r.data)
    \in {Num(n) : n \in 1..(CurrentVersionOfType(r.type_name) - 1)}
StoredVersion(r) == Copy(r.data, {"version"})

C23_Step ==
  \A r \in table :
     \A q \in table' :
        (q.id = r.id /\ StoredBelowCurrent(r))
          => StoredVersion(q) = StoredVersion(r)

\* C23 as stated: without a run of the bulk job, a row stored below the
\* current version keeps its stored version for as long as it exists.
C23_OnlyTheJobRetires == [][C23_Step]_vars

C23_AmendedStep ==
  \A r \in table :
     \A q \in table' :
        (q.id = r.id /\ StoredVersion(q) # StoredVersion(r))
          => /\ ret'.op \in {"update", "save"}
             /\ ret'.op = "update" => ret'.repo \in Repos /\ ret'.arg = r.id
             /\ ret'.op = "save"
                  => /\ ret'.repo = settingsRepo
                     /\ r.id = <<"user_settings", ret'.uid>>
             /\ MayUpdate(ret'.uid, r)
             /\ StoredVersion(q)
                  = [version |-> Num(ret'.repo.currentVersion)]

\* C23 amended: without a run of the bulk job, the stored version of a row
\* changes only in a Repository.update of that row or a
\* SingletonRepository.save by a caller allowed to update it, and it then
\* becomes the current version of the repository called; get, list, search,
\* delete and Repository.save leave the stored version of every row alone.
C23_OnlyWritesRetire == [][C23_AmendedStep]_vars

C23_Witness ==
  /\ ret # Pending
  /\ ret.op = "update"
  /\ ret.repo = projectRepo
  /\ \E r \in table : /\ r.id = ret.arg
                      /\ r.type_name = "projects"
                      /\ r.created_at < 0
                      /\ r.updated_at = clock
                      /\ StoredVersion(r) = [version |-> Num(2)]

C27_Step ==
  /\ (RepositoryStep("get") /\ ~ret'.out.threw
        /\ ret'.out.value # NullDocument)
       => \E r \in table : /\ r.id = ret'.arg
                           /\ r.type_name = ret'.repo.typeName
  /\ (RepositoryStep("update") \/ RepositoryStep("delete"))
       => \A r \in table : r.type_name # ret'.repo.typeName => r \in table'

\* C27: get, update and delete of a repository for type T, given the id of
\* a row of another type, return no Document built from that row and leave
\* the row as it was.
C27_ScopedToOneType == [][C27_Step]_vars

\* the ids of the page that list returns, positions offset .. offset+limit-1
\* (0-based) of an order s of the rows
PageIds(s, limit, offset) ==
  [k \in 1..(IF Len(s) <= offset THEN 0 ELSE Least(Len(s) - offset, limit))
     |-> s[offset + k].id]

\* list without orderBy, for the limits from minLimit on
DefaultOrderAndPaging(minLimit) ==
  (RepositoryStep("list") /\ ret'.arg.orderBy = "" /\ ~ret'.out.threw)
    => LET out == ret'.out.value
           limit == ret'.arg.limit
           offset == ret'.arg.offset
       IN /\ \A i, j \in DOMAIN out :
                i < j => out[i].metadata.created > out[j].metadata.created
          /\ \A k \in DOMAIN out :
                \E r \in VisibleRows : /\ r.id = out[k].id
                                       /\ r.created_at = out[k].metadata.created
          /\ limit >= minLimit
               => /\ Len(out) <= limit
                  /\ \E s \in OrderedBy(VisibleRows, NewestFirst) :
                        [k \in DOMAIN out |-> out[k].id]
                          = PageIds(s, limit, offset)
          /\ (limit < 0 /\ offset = 0) => Len(out) = Cardinality(VisibleRows)

\* C28: list() without orderBy returns the visible rows of the type newest
\* first; with limit L at most L rows, the rows at positions O .. O+L-1 of
\* that order.
C28_DefaultOrderAndPaging == [][DefaultOrderAndPaging(0)]_vars

\* the same for the limits of 1 and more
C28_PagingForPositiveLimit == [][DefaultOrderAndPaging(1)]_vars

(***************************************************************************)
(* Claims about save and delete of the SingletonRepository, checked under  *)
(* SpecSingleton.                                                          *)
(***************************************************************************)
SingletonId(uid) == <<"user_settings", uid>>

C24_Step ==
  \A p \in Procs :
     \A uid \in Users :
        \A doc \in SettingsDocs :
           Singleton_save(p, uid, doc)
             => /\ ret'.out = Return(Void)
                /\ Ids(table') = Ids(table) \cup {SingletonId(uid)}
                /\ \A r \in table : r.id # SingletonId(uid) => r \in table'
                /\ Cardinality({q \in table' : q.id = SingletonId(uid)}) = 1
                /\ \A q \in table' :
                      q.id = SingletonId(uid)
                        => /\ q.user_id = uid
                           /\ q.type_name = "user_settings"
                           /\ q.data
                                = Spread(doc, [typeName |-> "user_settings",
                                               version |-> Num(2)])

C25_Step ==
  \A p \in Procs :
     /\ \A uid \in Users :
           Singleton_delete(p, uid)
             => /\ ret'.out = Return(Void)
                /\ SingletonId(uid) \notin Ids(table')
     /\ Singleton_get_insert(p)
          => /\ SingletonId(ret'.uid) \notin Ids(table)
                  => ret'.arg.insertError = NoError
             /\ ret'.out = Return(DefaultDocument)
             /\ Cardinality({r \in table' :
                               /\ r.type_name = "user_settings"
                               /\ r.user_id = ret'.uid}) = 1

Falsy(data) ==
  ~HasField(data, "version") \/ data.version \in {Num(0), Null}

migrateV1toV2(v1) ==
  Spread([version |-> Num(2), typeName |-> "projects",
          members |-> ArrayOf(v1, "owner"), priority |-> 5],
         Copy(v1, {"title", "description"}))
migrateV2toV3(v2) == Spread(v2, [version |-> Num(3), tags |-> <<>>])

isProjectV1(data) == Falsy(data) \/ data.version = Num(1)
isProjectV2(data) == HasField(data, "version") /\ data.version = Num(2)
isProjectV3(data) == HasField(data, "version") /\ data.version = Num(3)

\* class ProjectDocument of the type-guard chain
TypeGuard_migrate(data) ==
  IF isProjectV1(data)
  THEN Return(migrateV2toV3(migrateV1toV2(data)))
  ELSE IF isProjectV2(data)
  THEN Return(migrateV2toV3(data))
  ELSE IF isProjectV3(data)
  THEN Return(data)
  ELSE Throw("Unknown project version: ", data.version)

\* the function MigrationBuilder.build() returns for the migrations from 1
\* and from 2: (data as any)?.version || 1, then Map.get
projectMigration(data) ==
  LET version == IF Falsy(data) THEN Num(1) ELSE data.version
  IN IF version = Num(1)
     THEN Return(Spread([version |-> Num(3), typeName |-> "projects",
                         members |-> ArrayOf(data, "owner"),
                         priority |-> 5, tags |-> <<>>],
                        Copy(data, {"title", "description"})))
     ELSE IF version = Num(2)
     THEN Return(Spread(data, [version |-> Num(3), tags |-> <<>>]))
     ELSE IF version = Num(3)
     THEN Return(data)
     ELSE Throw("No migration path from version ", version)

\* class ProjectDocumentSimple: switch (typed.version)
ProjectDocumentSimple_migrate(data) ==
  IF ~HasField(data, "version") \/ data.version = Num(1)
  THEN Return(Spread([version |-> Num(3), typeName |-> "projects",
                      members |-> ArrayOf(data, "owner"),
                      priority |-> 5, tags |-> <<>>],
                     Copy(data, {"title", "description"})))
  ELSE IF data.version = Num(2)
  THEN Return(Spread(data, [version |-> Num(3), tags |-> <<>>]))
  ELSE IF data.version = Num(3)
  THEN Return(data)
  ELSE Throw("Unknown version: ", data.version)

\* from.typeName !== to.typeName, a missing type name being undefined
TypeNameOf(d) == IF HasField(d, "typeName") THEN d.typeName ELSE Undefined

\* assertMigration(from, to, { sameType: true }); the version increment
\* asked for in the v2 branch is 3 - 2 = 1 and never fails
assertMigration(from, to) ==
  IF TypeNameOf(from) # TypeNameOf(to)
  THEN Throw("Type name mismatch: ", <<TypeNameOf(from), TypeNameOf(to)>>)
  ELSE Return(to)

\* class SafeProjectDocument: whatever is neither falsy, 1 nor 2 is
\* returned as it came
SafeProjectDocument_migrate(data) ==
  IF Falsy(data) \/ data.version = Num(1)
  THEN assertMigration(data,
         Spread([version |-> Num(3), typeName |-> "projects",
                 members |-> ArrayOf(data, "owner"),
                 priority |-> 5, tags |-> <<>>],
                Copy(data, {"title", "description"})))
  ELSE IF data.version = Num(2)
  THEN assertMigration(data,
         Spread(data, [version |-> Num(3), tags |-> <<>>]))
  ELSE Return(data)

Alternatives ==
  {"TypeGuard", "projectMigration", "ProjectDocumentSimple",
   "SafeProjectDocument"}

AlternativeMigrate(impl, data) ==
  CASE impl = "TypeGuard" -> TypeGuard_migrate(data)
    [] impl = "projectMigration" -> projectMigration(data)
    [] impl = "ProjectDocumentSimple" -> ProjectDocumentSimple_migrate(data)
    [] impl = "SafeProjectDocument" -> SafeProjectDocument_migrate(data)

AlternativesInit ==
  /\ job = JobOff
  /\ mpc = "input"
  /\ mClass \in Alternatives
  /\ mIn \in ProjectPayloads
  /\ mOut = Pending
  /\ mOut2 = Pending
  /\ table = {}
  /\ clock = 0
  /\ ret = Pending
  /\ spc = <<>>
  /\ sloc = <<>>
  /\ fresh = TRUE

Alternative_migrate ==
  /\ mpc = "input"
  /\ mOut' = AlternativeMigrate(mClass, mIn)
  /\ mpc' = "migrated"
  /\ UNCHANGED <<mClass, mIn, mOut2>>
  /\ UNCHANGED <<job, storevars>>

AlternativesNext == Alternative_migrate

SpecAlternatives == AlternativesInit /\ [][AlternativesNext]_vars

(***************************************************************************)
(* Claims about restarts, selection and storage errors of the bulk         *)
(* migration job, checked under SpecBulk.                                  *)
(***************************************************************************)
\* the last run exited with status 0 and the engine answered none of its
\* requests with an error
CleanExit ==
  JobExited /\ job.exit = 0 /\ ~job.selectFailed /\ job.rejected = {}
\* the store one uninterrupted run leaves, the time of the writes set aside
WrittenOnce(r) ==
  [Updated(r, MigrateOf(job.class, r.data).value, 0) EXCEPT !.updated_at = 0]
FinalStore ==
  {IF r \in PgSelectOld(job.before) THEN WrittenOnce(r) ELSE r
     : r \in job.before}
SelectedBefore == {r.id : r \in PgSelectOld(job.before)}

\* C26: a run that ends cleanly, after any interruptions and restarts,
\* leaves the store that one uninterrupted run leaves (write times aside);
\* at every moment each row is as it was before the first run or holds the
\* payload one migration of that row gives; and the job never writes to a
\* store from which it selects no row.
C26_Restartable ==
  /\ CleanExit
       => {IF r.id \in SelectedBefore THEN [r EXCEPT !.updated_at = 0]
           ELSE r : r \in table} = FinalStore
  /\ \A r \in table :
        \E b \in job.before :
           /\ b.id = r.id
           /\ \/ r = b
              \/ /\ b \in PgSelectOld(job.before)
                 /\ ~MigrateOf(job.class, b.data).threw
                 /\ [r EXCEPT !.updated_at = 0] = WrittenOnce(b)
  /\ PgSelectOld(job.before) = {} => table = job.before

C26_Witness ==
  /\ CleanExit
  /\ job.interrupted
  /\ job.runs = 2
  /\ \E r1 \in table :
        \E r2 \in table :
           /\ r1.id # r2.id
           /\ r1.updated_at = 1
           /\ r2.updated_at = 2
           /\ r2.id \in job.attempted
           /\ r1.id \notin job.attempted

\* C29: after a run that ended cleanly no row of type projects is left
\* without a version in its payload.
C29_UnversionedRowsMigrated ==
  CleanExit
    => \A r \in table :
          r.type_name = "projects" => HasField(r.data, "version")

\* C30: when the job exits with status 0 its selection was answered
\* without an error and every row it selected holds its migrated payload.
C30_SuccessMeansPersisted ==
  (JobExited /\ job.exit = 0)
    => /\ ~job.selectFailed
       /\ \A k \in DOMAIN job.oldDocs :
             \E r \in table :
                /\ r.id = job.oldDocs[k].id
                /\ r.data
                     = MigrateOf(job.class, job.oldDocs[k].data).value

(***************************************************************************)
(* The bulk migration job beside the application's writes, checked under   *)
(* SpecBulkConcurrent.                                                     *)
(***************************************************************************)
\* the job writes the row it reaches in its loop
JobWrites ==
  /\ job.pc = "loop"
  /\ job.i \in DOMAIN job.oldDocs
  /\ job'.pc = "loop"
  /\ job'.i = job.i + 1
  /\ job.oldDocs[job.i].id \notin job'.rejected
\* the row with this id, as stored
RowOf(tbl, id) == CHOOSE r \in tbl : r.id = id
\* the fields of a payload other than the schema version
FieldsOf(data) == DOMAIN data \ {"version"}

\* C31: when the job writes a row whose payload an update has replaced
\* since the job selected it, the row keeps every field value of that
\* update (the schema version aside).
C31_UpdateSurvivesJob ==
  [][(/\ JobWrites
      /\ RowOf(table, job.oldDocs[job.i].id).data # job.oldDocs[job.i].data)
       => LET id == job.oldDocs[job.i].id
              was == RowOf(table, id).data
              is == RowOf(table', id).data
          IN \A f \in FieldsOf(was) :
                f \in DOMAIN is /\ is[f] = was[f]]_vars

(***************************************************************************)
(* Migration and the access flags, checked under SpecMigrate.              *)
(***************************************************************************)
\* C32: for every payload that migrate accepts, publicRead and publicUpdate
\* of the result (absent counting as false) are those of the payload.
C32_MigrationKeepsFlags ==
  (mpc \in {"migrated", "remigrated"} /\ ~mOut.threw)
    => \A f \in FlagFields : Flag(mOut.value, f) = Flag(mIn, f)

(***************************************************************************)
(* Updates and the columns of a row, checked under Spec.                   *)
(***************************************************************************)
C33_Step ==
  (RepositoryStep("update") /\ ~ret'.out.threw)
    => \A r \in table :
          (r \notin table' /\ r.user_id # ret'.uid)
            => \E n \in table' :
                  /\ n.id = r.id
                  /\ n.public_read = r.public_read
                  /\ n.public_update = r.public_update

\* C33: an update that the engine accepts from a caller who does not own
\* the row leaves public_read and public_update of the row as they were.
C33_ForeignUpdateKeepsFlags == [][C33_Step]_vars

C33_Witness ==
  /\ ret # Pending
  /\ ret.repo \in Repos
  /\ ret.op = "update"
  /\ ~ret.out.threw
  /\ \E r \in table : /\ r.id = ret.arg
                      /\ r.user_id # ret.uid
                      /\ r.updated_at = clock
                      /\ r.created_at < clock
                      /\ r.public_read
                      /\ r.public_update

C34_Step ==
  RepositoryStep("update")
    => /\ Ids(table') = Ids(table)
       /\ \A r \in table :
             \E n \in table' :
                /\ n.id = r.id
                /\ n.user_id = r.user_id
                /\ n.type_name = r.type_name
                /\ n.created_at = r.created_at

\* C34: Repository.update adds and removes no row and leaves id, user_id,
\* type_name and created_at of every row as they were, whoever calls it.
C34_UpdateFrame == [][C34_Step]_vars

C34_Witness ==
  /\ ret # Pending
  /\ ret.repo \in Repos
  /\ ret.op = "update"
  /\ ~ret.out.threw
  /\ \E r \in table : /\ r.id = ret.arg
                      /\ r.user_id = ret.uid
                      /\ r.type_name # ret.repo.typeName
                      /\ r.data.typeName = ret.repo.typeName
                      /\ r.updated_at = clock
                      /\ r.created_at < 0
  /\ \E r \in table : r.id # ret.arg

(***************************************************************************)
(* The alternative implementations compared, checked under                 *)
(* SpecAlternatives.                                                       *)
(***************************************************************************)
\* both calls fail, or both return the same payload
SameOutcome(a, b) ==
  /\ a.threw = b.threw
  /\ ~a.threw => a.value = b.value

\* C35: on every payload the four alternative implementations all return
\* the same payload or all fail.
C35_AlternativesAgree ==
  mpc = "migrated"
    => \A impl \in Alternatives :
          SameOutcome(mOut, AlternativeMigrate(impl, mIn))

\* what does hold: the type-guard chain and the builder's function agree on
\* every payload, the text of the Error aside
C35_TypeGuardAndBuilderAgree ==
  mpc = "migrated"
    => SameOutcome(TypeGuard_migrate(mIn), projectMigration(mIn))

====
